---- MODULE Spec2Model ----
(***************************************************************************)
(* Model of kzon94/test-market:                                            *)
(*   - src/src/tma/inventory_matcher.py: parse_add_listings_text and       *)
(*     match_inventory (the listing parser and its aggregation pass);      *)
(*   - src/app/streamlit_app.py: fetch_100 / attempt_call (the retrying,   *)
(*     multi-auth-mode market fetcher), TokenBucket (the rate limiter)     *)
(*     called by several threads, and fetch_100 calls running in parallel  *)
(*     on one TokenBucket.                                                 *)
(* Text lines are TLA+ strings; a character is a one-character string      *)
(* obtained with SubSeq, so the regular expressions, strip(), lower() and  *)
(* int() are computed character by character as Python computes them.     *)
(***************************************************************************)
EXTENDS Integers, Sequences, FiniteSets, TLC

VARIABLES
    \* ---- inventory_matcher.py ----
    raw_text,          \* raw_text.splitlines(): the pasted text, line by line
    name_to_id,        \* the loaded dictionary (name -> item_id)
    lines,             \* cleaned, non-blank lines (lines 82-83)
    pos,               \* index in lines of the next line of the for loop
    current_name,      \* <<>> is None, <<n>> is the open block's name
    current_qty,
    current_omitted,
    results,           \* list of (name, qty, is_omitted)
    ppc,               \* control point of match_inventory
    matched,           \* ParseResult.matched
    unmatched,         \* ParseResult.unmatched
    \* ---- streamlit_app.py: one fetch_100 call ----
    fpc,               \* control point of fetch_100
    cycle,             \* the outer loop variable `_` (1..RETRIES)
    mode,              \* the inner loop variable (1, 2, 3)
    backoff,           \* <<numerator, denominator>> of the float backoff
    debits,            \* number of bucket.take(1) calls made
    sleeps,            \* the durations passed to time.sleep, in order
    req_item_id,       \* fetch_100's argument item_id
    req_my_quantity,   \* fetch_100's argument my_quantity
    attempts,          \* the responses of the current cycle, one per attempt
    upstream,          \* what the upstream has done during the whole call
    outcome,           \* what fetch_100 returned (or raised)
    \* ---- streamlit_app.py: a TokenBucket and the threads that call take ----
    tokens,            \* self.tokens, in units of 1 / TicksPerToken token
    last,              \* self.last, in ticks
    lock,              \* self.lock: <<>> is free, <<t>> is held by thread t
    clock,             \* time.perf_counter(), in ticks
    tpc,               \* per thread: its control point in take
    want,              \* per thread: the argument `tokens` of its take call
    started,           \* number of take calls made so far
    completed,         \* number of take(1) calls that have returned
    debited,           \* total debited by line 42, in the units of tokens
    refilled,          \* total added by line 39, in the units of tokens
    \* ---- streamlit_app.py: fetch_100 calls running in parallel ----
    workers            \* per thread: the locals of its fetch_100 call

pvars == <<raw_text, name_to_id, lines, pos, current_name, current_qty,
           current_omitted, results, ppc, matched, unmatched>>
fvars == <<fpc, cycle, mode, backoff, debits, sleeps, req_item_id,
           req_my_quantity,
           attempts, upstream, outcome>>
bvars == <<tokens, last, lock, clock, tpc, want, started, completed, debited,
           refilled>>
cvars == <<bvars, workers>>
vars == <<pvars, fvars, cvars>>

-----------------------------------------------------------------------------
(* Bounds of the model *)

\* longest enumerated pasted text, in lines
MaxLines == 3

\* the threads that share one TokenBucket
Threads == {"t1", "t2"}
\* the bucket's capacity, in tokens (the constructor's argument)
capacity == 2
\* the refill rate is one token per TicksPerToken ticks of the clock
TicksPerToken == 2
\* the clock is observed up to this time, in ticks
MaxTime == 4
\* the sizes of the take calls: one token, or the whole bucket
TakeSizes == {1, capacity}
\* take calls made in one run, all threads together
MaxCalls == 3

-----------------------------------------------------------------------------
(* Characters and strings, as Python's str *)

Char(s, i) == SubSeq(s, i, i)

\* stands for U+00A0 (no-break space) in the model's strings
NBSP == "~"

Digits == "0123456789"
UpperCase == "ABCDEFGHIJKLMNOPQRSTUVWXYZ"
LowerCase == "abcdefghijklmnopqrstuvwxyz"
\* the characters of the model in ascending code point order
CodePoints == " $," \o Digits \o UpperCase \o LowerCase \o NBSP

IndexIn(c, alphabet) ==
    IF \E i \in 1..Len(alphabet) : Char(alphabet, i) = c
    THEN CHOOSE i \in 1..Len(alphabet) : Char(alphabet, i) = c
    ELSE 0

IsDigit(c) == IndexIn(c, Digits) > 0
\* str.isspace(): both the space and the no-break space are whitespace
IsSpace(c) == c = " " \/ c = NBSP

\* str.lower(), one character
LowerChar(c) ==
    IF IndexIn(c, UpperCase) > 0 THEN Char(LowerCase, IndexIn(c, UpperCase)) ELSE c

RECURSIVE Lower(_)
Lower(s) ==
    IF Len(s) = 0 THEN ""
    ELSE LowerChar(Char(s, 1)) \o Lower(SubSeq(s, 2, Len(s)))

\* str.replace(NBSP, " ")
RECURSIVE ReplaceNBSP(_)
ReplaceNBSP(s) ==
    IF Len(s) = 0 THEN ""
    ELSE (IF Char(s, 1) = NBSP THEN " " ELSE Char(s, 1))
         \o ReplaceNBSP(SubSeq(s, 2, Len(s)))

RECURSIVE LStrip(_)
LStrip(s) ==
    IF Len(s) > 0 /\ IsSpace(Char(s, 1)) THEN LStrip(SubSeq(s, 2, Len(s))) ELSE s

RECURSIVE RStrip(_)
RStrip(s) ==
    IF Len(s) > 0 /\ IsSpace(Char(s, Len(s)))
    THEN RStrip(SubSeq(s, 1, Len(s) - 1)) ELSE s

\* str.strip()
Strip(s) == LStrip(RStrip(s))

\* int() of a string of decimal digits
RECURSIVE ParseInt(_)
ParseInt(s) ==
    IF Len(s) = 0 THEN 0
    ELSE 10 * ParseInt(SubSeq(s, 1, Len(s) - 1))
         + (IndexIn(Char(s, Len(s)), Digits) - 1)

\* Python's str comparison a < b: lexicographic by code point
RECURSIVE StrLess(_, _)
StrLess(a, b) ==
    IF Len(b) = 0 THEN FALSE
    ELSE IF Len(a) = 0 THEN TRUE
    ELSE IF Char(a, 1) = Char(b, 1)
         THEN StrLess(SubSeq(a, 2, Len(a)), SubSeq(b, 2, Len(b)))
         ELSE IndexIn(Char(a, 1), CodePoints) < IndexIn(Char(b, 1), CodePoints)

-----------------------------------------------------------------------------
(* inventory_matcher.py *)

_clean_line(line) == Strip(ReplaceNBSP(line))

\* length of the run of digits that ends the string
RECURSIVE TrailingDigits(_)
TrailingDigits(s) ==
    IF Len(s) > 0 /\ IsDigit(Char(s, Len(s)))
    THEN 1 + TrailingDigits(SubSeq(s, 1, Len(s) - 1)) ELSE 0

\* length of the run of whitespace that ends the string
RECURSIVE TrailingSpaces(_)
TrailingSpaces(s) ==
    IF Len(s) > 0 /\ IsSpace(Char(s, Len(s)))
    THEN 1 + TrailingSpaces(SubSeq(s, 1, Len(s) - 1)) ELSE 0

\* The tail x\s*(\d+)$ of both regular expressions (re.IGNORECASE): the
\* position of the x, or 0 when the string does not end that way.  The x is
\* neither a digit nor whitespace, so its position is unique.
XPos(s) ==
    LET d == TrailingDigits(s)
        rest == SubSeq(s, 1, Len(s) - d)
        w == TrailingSpaces(rest)
        p == Len(rest) - w
    IN  IF d >= 1 /\ p >= 1 /\ LowerChar(Char(s, p)) = "x" THEN p ELSE 0

\* _QTY_LINE_RE = ^x\s*(\d+)$ : <<>> is no match, <<group(1)>> a match
_QTY_LINE_RE(s) ==
    IF XPos(s) = 1
    THEN <<SubSeq(s, Len(s) - TrailingDigits(s) + 1, Len(s))>>
    ELSE <<>>

\* _NAME_QTY_SAME_LINE_RE = ^(.*)\s+x\s*(\d+)$ : <<>> is no match,
\* <<group(1), group(2)>> a match.  The greedy (.*) leaves \s+ exactly one
\* whitespace character, the one before the x.
_NAME_QTY_SAME_LINE_RE(s) ==
    LET p == XPos(s)
    IN  IF p >= 2 /\ IsSpace(Char(s, p - 1))
        THEN <<SubSeq(s, 1, p - 2),
               SubSeq(s, Len(s) - TrailingDigits(s) + 1, Len(s))>>
        ELSE <<>>

\* lines 82-83: clean every line, drop the empty ones
RECURSIVE CleanLines(_)
CleanLines(raw) ==
    IF Len(raw) = 0 THEN <<>>
    ELSE LET l == _clean_line(Head(raw))
         IN  (IF l = "" THEN <<>> ELSE <<l>>) \o CleanLines(Tail(raw))

\* flush(): the results list after the call
flush(res, cname, cqty, comitted) ==
    IF cname # <<>>
    THEN Append(res, [name |-> cname[1], qty |-> cqty, omitted |-> comitted])
    ELSE res

\* the test of line 123 without the lower() of line 122
IsOmissionMarker_CaseSensitive(line) ==
    line = "equipped" \/ line = "untradable"

\* the test of line 123
IsOmissionMarker(line) ==
    LET low == Lower(line) IN low = "equipped" \/ low = "untradable"

\* dict.get(name): <<>> is None, <<item_id>> a hit
DictGet(d, name) == IF name \in DOMAIN d THEN <<d[name]>> ELSE <<>>

\* index of the entry of `aggregated` with key item_id, 0 when absent
AggIndex(aggregated, item_id) ==
    IF \E k \in 1..Len(aggregated) : aggregated[k].item_id = item_id
    THEN CHOOSE k \in 1..Len(aggregated) : aggregated[k].item_id = item_id
    ELSE 0

\* AggregateEntry with line 156 storing qty instead of prev_qty + qty
AggregateEntry_Overwrite(acc, e, d) ==
    IF e.omitted THEN acc
    ELSE LET item_id == DictGet(d, e.name)
         IN  IF item_id = <<>>
             THEN [acc EXCEPT !.unmatched =
                      Append(@, [name |-> e.name, qty |-> e.qty])]
             ELSE LET k == AggIndex(acc.aggregated, item_id[1])
                  IN  IF k > 0
                      THEN [acc EXCEPT !.aggregated[k].qty = e.qty]
                      ELSE [acc EXCEPT !.aggregated =
                               Append(@, [item_id |-> item_id[1],
                                          name |-> e.name, qty |-> e.qty])]

\* AggregateEntry with the omitted test of line 146 taken when the block
\* has the default quantity as well
AggregateEntry_SkipDefaultQty(acc, e, d) ==
    IF e.omitted \/ e.qty = 1 THEN acc
    ELSE LET item_id == DictGet(d, e.name)
         IN  IF item_id = <<>>
             THEN [acc EXCEPT !.unmatched =
                      Append(@, [name |-> e.name, qty |-> e.qty])]
             ELSE LET k == AggIndex(acc.aggregated, item_id[1])
                  IN  IF k > 0
                      THEN [acc EXCEPT !.aggregated[k].qty = @ + e.qty]
                      ELSE [acc EXCEPT !.aggregated =
                               Append(@, [item_id |-> item_id[1],
                                          name |-> e.name, qty |-> e.qty])]

\* lines 146-158: one iteration of the aggregation loop.  acc.aggregated is
\* the dict `aggregated` in insertion order, acc.unmatched the list.
AggregateEntry(acc, e, d) ==
    IF e.omitted THEN acc
    ELSE LET item_id == DictGet(d, e.name)
         IN  IF item_id = <<>>
             THEN [acc EXCEPT !.unmatched =
                      Append(@, [name |-> e.name, qty |-> e.qty])]
             ELSE LET k == AggIndex(acc.aggregated, item_id[1])
                  IN  IF k > 0
                      THEN [acc EXCEPT !.aggregated[k].qty = @ + e.qty]
                      ELSE [acc EXCEPT !.aggregated =
                               Append(@, [item_id |-> item_id[1],
                                          name |-> e.name, qty |-> e.qty])]

\* lines 142-158: the loop over the parsed entries
RECURSIVE Aggregate(_, _)
Aggregate(parsed, d) ==
    IF Len(parsed) = 0 THEN [aggregated |-> <<>>, unmatched |-> <<>>]
    ELSE AggregateEntry(Aggregate(SubSeq(parsed, 1, Len(parsed) - 1), d),
                        parsed[Len(parsed)], d)

\* insert x after the last element whose name is not greater (stable)
RECURSIVE InsertByName(_, _)
InsertByName(sorted, x) ==
    IF Len(sorted) = 0 THEN <<x>>
    ELSE IF StrLess(x.name, sorted[Len(sorted)].name)
         THEN Append(InsertByName(SubSeq(sorted, 1, Len(sorted) - 1), x),
                     sorted[Len(sorted)])
         ELSE Append(sorted, x)

\* line 161: matched.sort(key=lambda x: x.name), a stable sort
RECURSIVE SortByName(_)
SortByName(items) ==
    IF Len(items) = 0 THEN <<>>
    ELSE InsertByName(SortByName(SubSeq(items, 1, Len(items) - 1)),
                      items[Len(items)])

\* line 160: the MatchedItem list built from aggregated.items()
MatchedItems(aggregated) ==
    [k \in 1..Len(aggregated) |->
        [name |-> aggregated[k].name, item_id |-> aggregated[k].item_id,
         qty |-> aggregated[k].qty]]

-----------------------------------------------------------------------------
(* Inputs of the parser *)

\* the lines a pasted text is made of, before cleaning
RawLines ==
    {"Xanax", "Flowers", "Ghost Item", "x5", "X 3", " Flowers~x2 ",
     "Equipped", "UNTRADABLE", ""}

RECURSIVE SeqsUpTo(_, _)
SeqsUpTo(S, n) ==
    IF n = 0 THEN {<<>>}
    ELSE LET shorter == SeqsUpTo(S, n - 1)
         IN  shorter \cup {Append(t, x) : t \in shorter, x \in S}

\* the scenario of the specification's section 8
GhostScenario == <<"Xanax", "x5", "Xanax", "x3", "Ghost Item", "x2">>
\* two blocks of an item the dictionary does not know
TwoGhosts == <<"Ghost Item", "x2", "Ghost Item", "x3">>

Texts == SeqsUpTo(RawLines, MaxLines) \cup {GhostScenario, TwoGhosts}

DictNames == {"Xanax", "Flowers"}
ItemIds == {99, 206}
\* load_dictionary returns a non-empty mapping of stripped, non-empty names
\* one name; two names whose order is the reverse of their ids' order; two
\* names of one id
Dictionaries ==
    {("Xanax" :> 206),
     ("Flowers" :> 99),
     ("Xanax" :> 99) @@ ("Flowers" :> 206),
     ("Xanax" :> 206) @@ ("Flowers" :> 206)}

-----------------------------------------------------------------------------
(* State of a fetch that has not been started (parser specification) *)

FetchIdle ==
    /\ fpc = "idle"
    /\ cycle = 1
    /\ mode = 1
    /\ backoff = <<8, 10>>
    /\ debits = 0
    /\ sleeps = <<>>
    /\ req_item_id = 0
    /\ req_my_quantity = 0
    /\ attempts = <<>>
    /\ upstream = [all503 |-> TRUE, in_contract |-> TRUE, requests |-> 0]
    /\ outcome = [kind |-> "none"]

\* no TokenBucket is in use and no thread is running
BucketIdle ==
    /\ tokens = 0
    /\ last = 0
    /\ lock = <<>>
    /\ clock = 0
    /\ tpc = [t \in Threads |-> "idle"]
    /\ want = [t \in Threads |-> 1]
    /\ started = 0
    /\ completed = 0
    /\ debited = 0
    /\ refilled = 0

NoWorker == [pc |-> "none"]
PoolIdle == workers = [t \in Threads |-> NoWorker]

-----------------------------------------------------------------------------
(* match_inventory, step by step *)

ParserInit ==
    /\ raw_text \in Texts
    /\ name_to_id \in Dictionaries
    /\ lines = <<>>
    /\ pos = 1
    /\ current_name = <<>>
    /\ current_qty = 1
    /\ current_omitted = FALSE
    /\ results = <<>>
    /\ ppc = "clean"
    /\ matched = <<>>
    /\ unmatched = <<>>
    /\ FetchIdle
    /\ BucketIdle
    /\ PoolIdle

valid_item_names == DOMAIN name_to_id

\* lines 82-89
SplitAndClean ==
    /\ ppc = "clean"
    /\ lines' = CleanLines(raw_text)
    /\ ppc' = "loop"
    /\ UNCHANGED <<raw_text, name_to_id, pos, current_name, current_qty,
                   current_omitted, results, matched, unmatched, fvars, cvars>>

InLoop == ppc = "loop" /\ pos <= Len(lines)

\* an item-start test that takes any line of letters for an item name
StartsExact_AnyName(line) ==
    \/ line \in valid_item_names
    \/ \A i \in 1..Len(line) :
          IndexIn(Char(line, i), " " \o UpperCase \o LowerCase) > 0

\* the line starts a block by lines 101-106
StartsExact(line) == line \in valid_item_names

\* the line starts a block by lines 109-117
StartsInline(line) ==
    /\ ~StartsExact(line)
    /\ _NAME_QTY_SAME_LINE_RE(line) # <<>>
    /\ Strip(_NAME_QTY_SAME_LINE_RE(line)[1]) \in valid_item_names

\* lines 101-106
ItemStart ==
    /\ InLoop
    /\ StartsExact(lines[pos])
    /\ results' = flush(results, current_name, current_qty, current_omitted)
    /\ current_name' = <<lines[pos]>>
    /\ current_qty' = 1
    /\ current_omitted' = FALSE
    /\ pos' = pos + 1
    /\ UNCHANGED <<raw_text, name_to_id, lines, ppc, matched, unmatched, fvars, cvars>>

\* lines 109-117
ItemStartWithQty ==
    /\ InLoop
    /\ StartsInline(lines[pos])
    /\ LET m_same == _NAME_QTY_SAME_LINE_RE(lines[pos])
       IN  /\ results' = flush(results, current_name, current_qty, current_omitted)
           /\ current_name' = <<Strip(m_same[1])>>
           /\ current_qty' = ParseInt(m_same[2])
           /\ current_omitted' = FALSE
    /\ pos' = pos + 1
    /\ UNCHANGED <<raw_text, name_to_id, lines, ppc, matched, unmatched, fvars, cvars>>

\* lines 119-120: no block is open, the line is skipped
Orphan ==
    /\ InLoop
    /\ ~StartsExact(lines[pos]) /\ ~StartsInline(lines[pos])
    /\ current_name = <<>>
    /\ pos' = pos + 1
    /\ UNCHANGED <<raw_text, name_to_id, lines, current_name, current_qty,
                   current_omitted, results, ppc, matched, unmatched, fvars, cvars>>

\* lines 122-125
OmissionMarker ==
    /\ InLoop
    /\ ~StartsExact(lines[pos]) /\ ~StartsInline(lines[pos])
    /\ current_name # <<>>
    /\ IsOmissionMarker(lines[pos])
    /\ current_omitted' = TRUE
    /\ pos' = pos + 1
    /\ UNCHANGED <<raw_text, name_to_id, lines, current_name, current_qty,
                   results, ppc, matched, unmatched, fvars, cvars>>

\* a quantity line that adds to the block's quantity
QtyLine_Adds ==
    /\ InLoop
    /\ ~StartsExact(lines[pos]) /\ ~StartsInline(lines[pos])
    /\ current_name # <<>>
    /\ ~IsOmissionMarker(lines[pos])
    /\ _QTY_LINE_RE(lines[pos]) # <<>>
    /\ current_qty' = current_qty + ParseInt(_QTY_LINE_RE(lines[pos])[1])
    /\ pos' = pos + 1
    /\ UNCHANGED <<raw_text, name_to_id, lines, current_name, current_omitted,
                   results, ppc, matched, unmatched, fvars, cvars>>

\* lines 127-130
QtyLine ==
    /\ InLoop
    /\ ~StartsExact(lines[pos]) /\ ~StartsInline(lines[pos])
    /\ current_name # <<>>
    /\ ~IsOmissionMarker(lines[pos])
    /\ _QTY_LINE_RE(lines[pos]) # <<>>
    /\ current_qty' = ParseInt(_QTY_LINE_RE(lines[pos])[1])
    /\ pos' = pos + 1
    /\ UNCHANGED <<raw_text, name_to_id, lines, current_name, current_omitted,
                   results, ppc, matched, unmatched, fvars, cvars>>

\* a line of an open block that matches nothing: the loop goes on
IgnoredLine ==
    /\ InLoop
    /\ ~StartsExact(lines[pos]) /\ ~StartsInline(lines[pos])
    /\ current_name # <<>>
    /\ ~IsOmissionMarker(lines[pos])
    /\ _QTY_LINE_RE(lines[pos]) = <<>>
    /\ pos' = pos + 1
    /\ UNCHANGED <<raw_text, name_to_id, lines, current_name, current_qty,
                   current_omitted, results, ppc, matched, unmatched, fvars, cvars>>

\* lines 132-133: the flush after the last line, and the return
ParseReturn ==
    /\ ppc = "loop"
    /\ pos > Len(lines)
    /\ results' = flush(results, current_name, current_qty, current_omitted)
    /\ current_name' = <<>>
    /\ current_qty' = 1
    /\ current_omitted' = FALSE
    /\ ppc' = "match"
    /\ UNCHANGED <<raw_text, name_to_id, lines, pos, matched, unmatched, fvars, cvars>>

\* lines 142-163: aggregation, sort and return of match_inventory
MatchReturn ==
    /\ ppc = "match"
    /\ LET acc == Aggregate(results, name_to_id)
       IN  /\ matched' = SortByName(MatchedItems(acc.aggregated))
           /\ unmatched' = acc.unmatched
    /\ ppc' = "done"
    /\ UNCHANGED <<raw_text, name_to_id, lines, pos, current_name, current_qty,
                   current_omitted, results, fvars, cvars>>

ParserNext ==
    \/ SplitAndClean
    \/ ItemStart
    \/ ItemStartWithQty
    \/ Orphan
    \/ OmissionMarker
    \/ QtyLine
    \/ IgnoredLine
    \/ ParseReturn
    \/ MatchReturn

ParserSpec == ParserInit /\ [][ParserNext]_vars

ParserDone == ppc = "done"

-----------------------------------------------------------------------------
(* Claims about match_inventory *)

RECURSIVE QtySum(_)
QtySum(entries) ==
    IF Len(entries) = 0 THEN 0
    ELSE entries[1].qty + QtySum(Tail(entries))

\* the flushed blocks that are not omitted
NonOmitted ==
    LET Keep(e) == ~e.omitted IN SelectSeq(results, Keep)

\* the non-omitted flushed blocks whose name the dictionary resolves to id
BlocksOf(id) ==
    LET Keep(e) == e.name \in DOMAIN name_to_id /\ name_to_id[e.name] = id
    IN  SelectSeq(NonOmitted, Keep)

\* the non-omitted flushed blocks whose name the dictionary does not know
BlocksUnknown ==
    LET Keep(e) == e.name \notin DOMAIN name_to_id IN SelectSeq(NonOmitted, Keep)

MatchedIds == {matched[k].item_id : k \in 1..Len(matched)}

\* C2: with dictionary {Xanax: 206} and the lines Xanax, x5, Xanax, x3,
\* Ghost Item, x2, match_inventory returns matched = [(Xanax, 206, 8)] and
\* unmatched = [(Ghost Item, 2)]: the unknown block is reported with its own
\* quantity and does not alter the quantity of the matched item.
C2_GhostScenario ==
    (ParserDone /\ raw_text = GhostScenario /\ name_to_id = ("Xanax" :> 206))
        => /\ matched = <<[name |-> "Xanax", item_id |-> 206, qty |-> 8]>>
           /\ unmatched = <<[name |-> "Ghost Item", qty |-> 2]>>

\* C3: matched holds each item_id at most once, the qty of each MatchedItem
\* is the sum of the quantities of all non-omitted blocks resolving to that
\* item_id, every such item_id is listed, and the list is ordered by name
\* ascending.
C3_Aggregation ==
    ParserDone =>
        /\ \A i, j \in 1..Len(matched) :
              matched[i].item_id = matched[j].item_id => i = j
        /\ \A k \in 1..Len(matched) :
              /\ Len(BlocksOf(matched[k].item_id)) >= 1
              /\ matched[k].qty = QtySum(BlocksOf(matched[k].item_id))
        /\ \A id \in ItemIds : Len(BlocksOf(id)) >= 1 => id \in MatchedIds
        /\ \A i, j \in 1..Len(matched) :
              i < j => StrLess(matched[i].name, matched[j].name)

\* two blocks were summed into one item, and the sort moved an item: the
\* first flushed block is Xanax, the first matched item is Flowers
C3_Witness ==
    /\ ParserDone
    /\ Len(matched) = 2
    /\ \E k \in 1..2 : Len(BlocksOf(matched[k].item_id)) >= 2
    /\ results[1].name = "Xanax" /\ ~results[1].omitted
    /\ matched[1].name = "Flowers"

\* the cleaned line opens a block (lines 101 and 109-112)
IsStartLine(line) == StartsExact(line) \/ StartsInline(line)

\* positions in `lines` of the item-start lines, in order
StartPositions ==
    LET Keep(p) == IsStartLine(lines[p])
    IN  SelectSeq([p \in 1..Len(lines) |-> p], Keep)

\* a line that is Equipped or Untradable in any letter case
ReadsAsMarker(line) == Lower(line) \in {"equipped", "untradable"}

\* for the blocks in order: whether a marker line stands after the block's
\* item-start line and before the next item-start line
MarkerInBlock ==
    LET sp == StartPositions
        LastOf(k) == IF k < Len(sp) THEN sp[k + 1] - 1 ELSE Len(lines)
    IN  [k \in 1..Len(sp) |->
            \E p \in (sp[k] + 1)..LastOf(k) : ReadsAsMarker(lines[p])]

RECURSIVE QtySumAt(_)
QtySumAt(K) ==
    IF K = {} THEN 0
    ELSE LET k == CHOOSE x \in K : TRUE
         IN  results[k].qty + QtySumAt(K \ {k})

\* C4: a block with an Equipped or Untradable line (any letter case) between
\* its item-start line and the next item-start line is flushed as omitted and
\* contributes to neither matched nor unmatched, whatever quantity lines it
\* has: matched and unmatched are made of the marker-free blocks alone.
C4_Omission ==
    ParserDone =>
        LET marked == MarkerInBlock
            \* the marker-free flushed blocks, by position, that resolve to id
            CleanBlocksOf(id) ==
                {k \in 1..Len(results) :
                    /\ ~marked[k]
                    /\ results[k].name \in DOMAIN name_to_id
                    /\ name_to_id[results[k].name] = id}
        IN  /\ Len(results) = Len(marked)
            /\ \A k \in 1..Len(results) : marked[k] => results[k].omitted
            /\ \A id \in ItemIds :
                  IF CleanBlocksOf(id) = {}
                  THEN id \notin MatchedIds
                  ELSE \E m \in 1..Len(matched) :
                          /\ matched[m].item_id = id
                          /\ matched[m].qty = QtySumAt(CleanBlocksOf(id))
            /\ \A u \in 1..Len(unmatched) :
                  \E k \in 1..Len(results) :
                     /\ ~marked[k]
                     /\ results[k].name = unmatched[u].name
            /\ (lines = <<"Flowers", "Equipped">>
                /\ name_to_id = ("Flowers" :> 99))
                  => (matched = <<>> /\ unmatched = <<>>)

\* a block with an upper-case marker followed by a quantity line, of an item
\* the dictionary knows, and nothing is reported
C4_Witness ==
    /\ ParserDone
    /\ lines = <<"Flowers", "UNTRADABLE", "x5">>
    /\ "Flowers" \in DOMAIN name_to_id
    /\ results = <<[name |-> "Flowers", qty |-> 5, omitted |-> TRUE]>>
    /\ matched = <<>> /\ unmatched = <<>>

\* C5: two non-omitted blocks with the same name that fails dictionary
\* lookup give two separate unmatched entries, in parse order, each with its
\* own quantity (here Ghost Item x2 and Ghost Item x3, a name no dictionary
\* of the model holds).
C5_TwoGhosts ==
    (ParserDone /\ raw_text = TwoGhosts)
        => unmatched = <<[name |-> "Ghost Item", qty |-> 2],
                         [name |-> "Ghost Item", qty |-> 3]>>

\* C6: every flushed block that is not omitted contributes its quantity to
\* exactly one output record: the quantities of matched plus unmatched add up
\* to those of the non-omitted flushed blocks, each such block is either in
\* the one matched record of its item_id or (unresolved) in unmatched, and
\* every output record traces back to a non-omitted flushed block.
C6_NoBlockLost ==
    ParserDone =>
        /\ QtySum(matched) + QtySum(unmatched) = QtySum(NonOmitted)
        /\ \A k \in 1..Len(NonOmitted) :
              IF NonOmitted[k].name \in DOMAIN name_to_id
              THEN Cardinality({m \in 1..Len(matched) :
                      matched[m].item_id = name_to_id[NonOmitted[k].name]}) = 1
              ELSE \E u \in 1..Len(unmatched) :
                      unmatched[u] = [name |-> NonOmitted[k].name,
                                      qty |-> NonOmitted[k].qty]
        /\ Len(unmatched) = Len(BlocksUnknown)
        /\ \A m \in 1..Len(matched) :
              \E k \in 1..Len(NonOmitted) :
                 /\ NonOmitted[k].name = matched[m].name
                 /\ name_to_id[matched[m].name] = matched[m].item_id
        /\ \A u \in 1..Len(unmatched) :
              \E k \in 1..Len(NonOmitted) :
                 /\ NonOmitted[k].name = unmatched[u].name
                 /\ NonOmitted[k].qty = unmatched[u].qty

\* two flushed blocks, one omitted: the other one reaches the output with
\* its inline quantity
C6_Witness ==
    /\ ParserDone
    /\ Len(results) = 2
    /\ results[1].omitted
    /\ Len(NonOmitted) = 1
    /\ Len(matched) = 1
    /\ matched[1].qty = NonOmitted[1].qty
    /\ matched[1].qty = 2

-----------------------------------------------------------------------------
(* streamlit_app.py: the market fetcher *)

RETRIES == 3

\* the number of price/amount slots of a row (lines 124 and 138)
NumSlots == 100

\* the statuses of line 109
RetryableStatuses == {429, 500, 502, 503, 504}

\* Bounds of the upstream's listing arrays: 0..MaxShort listings, and
\* NumSlots - 1 .. NumSlots + MaxOver listings
MaxShort == 2
MaxOver == 1

\* largest my_quantity asked for
MaxQty == 2

\* str() of an integer, as the f-string of line 117 formats the code
RECURSIVE NatStr(_)
NatStr(n) ==
    IF n < 10 THEN Char(Digits, n + 1)
    ELSE NatStr(n \div 10) \o Char(Digits, (n % 10) + 1)

IntStr(n) == IF n < 0 THEN "-" \o NatStr(-n) ELSE NatStr(n)

\* ---- what the upstream can answer to one request ----

ListingLengths == (0..MaxShort) \cup ((NumSlots - 1)..(NumSlots + MaxOver))

\* a listing array of the upstream: ascending prices, or (order 2) descending
ListingArray(len, order) ==
    [i \in 1..len |->
        [price |-> IF order = 1 THEN 100 + i ELSE 1000 - i, amount |-> i]]

ListingArrays == {ListingArray(len, order) : len \in ListingLengths, order \in 1..2}

\* JSON bodies: the failure shape, the success shape, {} (no error, no
\* itemmarket), a body that is not JSON, and a JSON array (outside the wire
\* contract)
ErrorCodes == {0, 2, 5, 10}
ErrorBodies ==
    {[kind |-> "error", code |-> c, msg |-> "Denied"] : c \in ErrorCodes}
MarketBodies ==
    {[kind |-> "market",
      item |-> [id |-> 206, name |-> "Xanax", type |-> "Drug",
                average_price |-> 800],
      listings |-> ls] : ls \in ListingArrays}
Bodies ==
    ErrorBodies \cup MarketBodies
    \cup {[kind |-> "empty"], [kind |-> "notjson"], [kind |-> "array"]}

Statuses == {200, 429, 503}

\* session.get raises, or an HTTP response arrives
Responses ==
    {[kind |-> "exception", exc |-> "ConnectionError"]}
    \cup {[kind |-> "http", status |-> st, body |-> b] :
            st \in Statuses, b \in Bodies}

\* ---- attempt_call and fetch_100 ----

\* lines 82-83: the pair returned, or the exception raised by session.get
\* or by resp.json()
attempt_call(resp) ==
    IF resp.kind = "exception"
    THEN [raised |-> TRUE, exc |-> resp.exc]
    ELSE IF resp.body.kind = "notjson"
         THEN [raised |-> TRUE, exc |-> "JSONDecodeError"]
         ELSE [raised |-> FALSE, status |-> <<resp.status>>, data |-> resp.body]

\* `except Exception` catching only the transport's exception class
Caught_ConnectionErrorOnly(exc) == exc = "ConnectionError"

\* line 99: `except Exception` catches every exception attempt_call raises
Caught(exc) == exc \in {"ConnectionError", "JSONDecodeError"}

\* lines 97-100: status and data after the try statement; status <<>> is None
TryAttempt(resp) ==
    LET r == attempt_call(resp)
    IN  IF r.raised
        THEN IF Caught(r.exc)
             THEN [escaped |-> FALSE, status |-> <<>>,
                   data |-> [kind |-> "error", code |-> -1, msg |-> r.exc]]
             ELSE [escaped |-> TRUE, exc |-> r.exc]
        ELSE [escaped |-> FALSE, status |-> r.status, data |-> r.data]

\* a classification that retries an invalid key in the last auth mode
Classify_Code2Retried(status, data, m) ==
    IF data.kind = "error"
    THEN IF data.code = 2 /\ m # 3 THEN "continue"
         ELSE IF data.code \in {0, 2, 10}
                 \/ (status # <<>> /\ status[1] \in RetryableStatuses)
              THEN "backoff"
              ELSE "return_error"
    ELSE "proceed"

\* Classify with the mode test of line 106 inverted
Classify_NoFallback(status, data, m) ==
    IF data.kind = "error"
    THEN IF data.code = 2 /\ m = 3 THEN "continue"
         ELSE IF data.code \in {0, 10}
                 \/ (status # <<>> /\ status[1] \in RetryableStatuses)
              THEN "backoff"
              ELSE "return_error"
    ELSE "proceed"

\* lines 102-118: what the loop body does with the response
Classify(status, data, m) ==
    IF data.kind = "error"
    THEN IF data.code = 2 /\ m # 3 THEN "continue"
         ELSE IF data.code \in {0, 10}
                 \/ (status # <<>> /\ status[1] \in RetryableStatuses)
              THEN "backoff"
              ELSE "return_error"
    ELSE "proceed"

\* lines 114-118
ErrorRow(iid, qty, code, msg) ==
    [item_id |-> iid, my_quantity |-> qty,
     error |-> "API error " \o IntStr(code) \o ": " \o msg]

\* line 147
ExhaustedRow(iid, qty) ==
    [item_id |-> iid, my_quantity |-> qty, error |-> "Exhausted retries"]

\* lines 120-122: (data or {}).get("itemmarket", {}) or {} and its parts
ListingsOf(data) == IF data.kind = "market" THEN data.listings ELSE <<>>
ItemOf(data) == IF data.kind = "market" THEN <<data.item>> ELSE <<>>

Min(a, b) == IF a < b THEN a ELSE b

\* BuildRow with n = len(listings) in line 124
BuildRow_NoTruncate(data, iid, qty) ==
    LET listings == ListingsOf(data)
        item == ItemOf(data)
        n == Len(listings)
    IN  [item_id |-> IF item # <<>> THEN item[1].id ELSE iid,
         item_name |-> IF item # <<>> THEN <<item[1].name>> ELSE <<>>,
         item_type |-> IF item # <<>> THEN <<item[1].type>> ELSE <<>>,
         average_price |-> IF item # <<>> THEN <<item[1].average_price>> ELSE <<>>,
         my_quantity |-> qty,
         price |-> [i \in 1..n |-> <<listings[i].price>>]
                   @@ [i \in (n + 1)..NumSlots |-> <<>>],
         amount |-> [i \in 1..n |-> <<listings[i].amount>>]
                    @@ [i \in (n + 1)..NumSlots |-> <<>>]]

\* lines 120-142: the MarketRow; price[i] and amount[i] are the keys
\* price_i and amount_i, <<>> is None
BuildRow(data, iid, qty) ==
    LET listings == ListingsOf(data)
        item == ItemOf(data)
        n == Min(Len(listings), NumSlots)
    IN  [item_id |-> IF item # <<>> THEN item[1].id ELSE iid,
         item_name |-> IF item # <<>> THEN <<item[1].name>> ELSE <<>>,
         item_type |-> IF item # <<>> THEN <<item[1].type>> ELSE <<>>,
         average_price |-> IF item # <<>> THEN <<item[1].average_price>> ELSE <<>>,
         my_quantity |-> qty,
         price |-> [i \in 1..n |-> <<listings[i].price>>]
                   @@ [i \in (n + 1)..NumSlots |-> <<>>],
         amount |-> [i \in 1..n |-> <<listings[i].amount>>]
                    @@ [i \in (n + 1)..NumSlots |-> <<>>]]

\* backoff *= 1.6, on the exact fraction
Grow(b) == <<b[1] * 16, b[2] * 10>>

\* State of a match_inventory that has not been started
ParserIdle ==
    /\ raw_text = <<>>
    /\ name_to_id = <<>>
    /\ lines = <<>>
    /\ pos = 1
    /\ current_name = <<>>
    /\ current_qty = 1
    /\ current_omitted = FALSE
    /\ results = <<>>
    /\ ppc = "idle"
    /\ matched = <<>>
    /\ unmatched = <<>>

\* line 93 and the first iteration of both loops
FetchInit ==
    /\ ParserIdle
    /\ BucketIdle
    /\ PoolIdle
    /\ req_item_id \in ItemIds
    /\ req_my_quantity \in 1..MaxQty
    /\ fpc = "try"
    /\ cycle = 1
    /\ mode = 1
    /\ backoff = <<8, 10>>
    /\ debits = 0
    /\ sleeps = <<>>
    /\ attempts = <<>>
    /\ upstream = [all503 |-> TRUE, in_contract |-> TRUE, requests |-> 0]
    /\ outcome = [kind |-> "none"]

\* an attempt_call that takes a token for the first auth mode only
Take_FirstModeOnly ==
    /\ fpc = "try"
    /\ debits' = IF mode = 1 THEN debits + 1 ELSE debits
    /\ fpc' = "request"
    /\ UNCHANGED <<pvars, cvars, cycle, mode, backoff, sleeps, req_item_id,
                   req_my_quantity, attempts, upstream, outcome>>

\* line 81 of attempt_call: bucket.take(1) has returned, one token is debited
Take ==
    /\ fpc = "try"
    /\ debits' = debits + 1
    /\ fpc' = "request"
    /\ UNCHANGED <<pvars, cvars, cycle, mode, backoff, sleeps, req_item_id,
                   req_my_quantity, attempts, upstream, outcome>>

\* line 82 of attempt_call: the request is made and answered by resp
Request(resp) ==
    /\ fpc = "request"
    /\ attempts' = Append(attempts, [mode |-> mode, resp |-> resp])
    /\ upstream' =
          [all503 |-> upstream.all503 /\ resp.kind = "http" /\ resp.status = 503,
           in_contract |-> upstream.in_contract
                           /\ ~(resp.kind = "http" /\ resp.body.kind = "array"),
           requests |-> upstream.requests + 1]

Handled(resp, what) ==
    /\ ~TryAttempt(resp).escaped
    /\ Classify(TryAttempt(resp).status, TryAttempt(resp).data, mode) = what

\* lines 106-107: code 2 in mode 1 or 2, the next mode is tried
AuthFallback ==
    \E resp \in Responses :
        /\ Request(resp)
        /\ Handled(resp, "continue")
        /\ mode' = mode + 1
        /\ fpc' = "try"
        /\ UNCHANGED <<pvars, cvars, cycle, backoff, debits, sleeps, req_item_id,
                       req_my_quantity, outcome>>

\* line 109: a transient code or a retryable status
Transient ==
    \E resp \in Responses :
        /\ Request(resp)
        /\ Handled(resp, "backoff")
        /\ fpc' = "backoff"
        /\ UNCHANGED <<pvars, cvars, cycle, mode, backoff, debits, sleeps,
                       req_item_id, req_my_quantity, outcome>>

\* lines 110-112: sleep, grow the backoff, leave the inner loop
BackoffSleep ==
    /\ fpc = "backoff"
    /\ sleeps' = Append(sleeps, backoff)
    /\ backoff' = Grow(backoff)
    /\ fpc' = "cycle_end"
    /\ UNCHANGED <<pvars, cvars, cycle, mode, debits, req_item_id, req_my_quantity,
                   attempts, upstream, outcome>>

\* lines 144-145, then the next cycle or line 147
CycleEnd ==
    /\ fpc = "cycle_end"
    /\ sleeps' = Append(sleeps, backoff)
    /\ backoff' = Grow(backoff)
    /\ IF cycle < RETRIES
       THEN /\ cycle' = cycle + 1
            /\ mode' = 1
            /\ attempts' = <<>>
            /\ fpc' = "try"
            /\ UNCHANGED outcome
       ELSE /\ fpc' = "done"
            /\ outcome' = [kind |-> "returned",
                           row |-> ExhaustedRow(req_item_id, req_my_quantity)]
            /\ UNCHANGED <<cycle, mode, attempts>>
    /\ UNCHANGED <<pvars, cvars, debits, req_item_id, req_my_quantity, upstream>>

\* lines 114-118: any other error is returned as an ErrorRow
Fatal ==
    \E resp \in Responses :
        /\ Request(resp)
        /\ Handled(resp, "return_error")
        /\ fpc' = "done"
        /\ outcome' = [kind |-> "returned",
                       row |-> ErrorRow(req_item_id, req_my_quantity,
                                        TryAttempt(resp).data.code,
                                        TryAttempt(resp).data.msg)]
        /\ UNCHANGED <<pvars, cvars, cycle, mode, backoff, debits, sleeps,
                       req_item_id, req_my_quantity>>

\* lines 120-142: no error object, the row is built and returned
Success ==
    \E resp \in Responses :
        /\ Request(resp)
        /\ Handled(resp, "proceed")
        /\ TryAttempt(resp).data.kind # "array"
        /\ fpc' = "done"
        /\ outcome' = [kind |-> "returned",
                       row |-> BuildRow(TryAttempt(resp).data, req_item_id,
                                        req_my_quantity)]
        /\ UNCHANGED <<pvars, cvars, cycle, mode, backoff, debits, sleeps,
                       req_item_id, req_my_quantity>>

\* an exception leaves fetch_100: one the try statement does not catch, or
\* the AttributeError of line 120 when data is a non-empty JSON array
Raises ==
    \E resp \in Responses :
        /\ Request(resp)
        /\ \/ TryAttempt(resp).escaped
           \/ /\ Handled(resp, "proceed")
              /\ TryAttempt(resp).data.kind = "array"
        /\ fpc' = "done"
        /\ outcome' = [kind |-> "raised"]
        /\ UNCHANGED <<pvars, cvars, cycle, mode, backoff, debits, sleeps,
                       req_item_id, req_my_quantity>>

FetchNext ==
    \/ Take
    \/ AuthFallback
    \/ Transient
    \/ BackoffSleep
    \/ CycleEnd
    \/ Fatal
    \/ Success
    \/ Raises

FetchSpec == FetchInit /\ [][FetchNext]_vars

\* the number of a standalone quantity line ("x" or "X", blanks, digits),
\* <<>> for any other line
StandaloneQty(line) ==
    IF Len(line) >= 2 /\ Lower(Char(line, 1)) = "x"
    THEN LET rest == LStrip(SubSeq(line, 2, Len(line)))
         IN  IF rest # "" /\ \A i \in 1..Len(rest) : IsDigit(Char(rest, i))
             THEN <<ParseInt(rest)>>
             ELSE <<>>
    ELSE <<>>

\* the quantity written on an item-start line itself, <<>> if it has none
InlineQty(line) ==
    IF StartsInline(line)
    THEN <<ParseInt(_NAME_QTY_SAME_LINE_RE(line)[2])>>
    ELSE <<>>

\* for the blocks in order: the quantity of the last standalone quantity
\* line of the block, else the inline quantity of its item-start line,
\* else 1
ExpectedQty ==
    LET sp == StartPositions
        LastOf(k) == IF k < Len(sp) THEN sp[k + 1] - 1 ELSE Len(lines)
        QtyPositions(k) ==
            {p \in (sp[k] + 1)..LastOf(k) : StandaloneQty(lines[p]) # <<>>}
        Latest(P) == CHOOSE p \in P : \A q \in P : q <= p
    IN  [k \in 1..Len(sp) |->
            IF QtyPositions(k) # {}
            THEN StandaloneQty(lines[Latest(QtyPositions(k))])[1]
            ELSE IF InlineQty(lines[sp[k]]) # <<>>
                 THEN InlineQty(lines[sp[k]])[1]
                 ELSE 1]

\* the line the loop is at is not an item-start line and a block is open
InBlockLine ==
    /\ InLoop
    /\ ~IsStartLine(lines[pos])
    /\ current_name # <<>>

C19_Step ==
    (InBlockLine /\ pos' = pos + 1)
        => /\ results' = results
           /\ current_name' = current_name
           /\ current_qty' =
                 IF StandaloneQty(lines[pos]) # <<>>
                 THEN StandaloneQty(lines[pos])[1]
                 ELSE current_qty

C19_Flushed ==
    ppc \in {"match", "done"}
        => /\ Len(results) = Len(StartPositions)
           /\ \A k \in 1..Len(results) : results[k].qty = ExpectedQty[k]

\* C19: a standalone quantity line in an open block replaces the block's
\* quantity and flushes nothing; a marker or any other line leaves the
\* quantity as it is; every flushed block carries the quantity of its last
\* standalone quantity line, else the inline quantity of its item-start
\* line, else 1.
C19_LastQtyWins == [][C19_Step]_vars /\ []C19_Flushed

\* a block with an inline quantity and two quantity lines was flushed with
\* the last of the three
C19_Witness ==
    /\ ParserDone
    /\ lines = <<"Flowers x2", "x5", "X 3">>
    /\ Len(results) = 1
    /\ results[1].qty = 3

\* C20: every flushed block bears a name of the dictionary, so
\* match_inventory reports no unmatched name whatever the text and the
\* dictionary; a line that names no dictionary item opens no block and
\* flushes none: the block before it stays open under its own name.
C20_Step ==
    (InLoop /\ pos' = pos + 1 /\ Strip(lines[pos]) \notin DOMAIN name_to_id
     /\ (_NAME_QTY_SAME_LINE_RE(lines[pos]) # <<>>
            => Strip(_NAME_QTY_SAME_LINE_RE(lines[pos])[1])
                  \notin DOMAIN name_to_id))
        => /\ current_name' = current_name
           /\ results' = results

C20_State ==
    /\ \A k \in 1..Len(results) : results[k].name \in DOMAIN name_to_id
    /\ current_name # <<>> => current_name[1] \in DOMAIN name_to_id
    /\ unmatched = <<>>

C20_UnmatchedEmpty == [][C20_Step]_vars /\ []C20_State

\* a quantity line after a line naming an unknown item went to the block
\* before it; nothing is unmatched
C20_Witness ==
    /\ ParserDone
    /\ lines = <<"Xanax", "Ghost Item", "x5">>
    /\ "Xanax" \in DOMAIN name_to_id
    /\ Len(results) = 1
    /\ results[1] = [name |-> "Xanax", qty |-> 5, omitted |-> FALSE]
    /\ unmatched = <<>>

-----------------------------------------------------------------------------
(* Claims about fetch_100 *)

FetchDone == fpc = "done"
Returned == FetchDone /\ outcome.kind = "returned"

\* the two shapes of a FetchOutcome, by the keys of the returned dict
IsErrorRow(row) == DOMAIN row = {"item_id", "my_quantity", "error"}
IsMarketRow(row) ==
    /\ "error" \notin DOMAIN row
    /\ {"item_id", "item_name", "item_type", "average_price", "my_quantity",
        "price", "amount"} \subseteq DOMAIN row

LastAttempt == attempts[Len(attempts)]
LastResp == LastAttempt.resp

\* the response is an error object with this code
HasCode(resp, c) ==
    resp.kind = "http" /\ resp.body.kind = "error" /\ resp.body.code = c

\* the response is well formed: parseable JSON without an error object
WellFormed(resp) ==
    resp.kind = "http" /\ resp.body.kind \in {"market", "empty"}

RowHoldsListings(row, listings) ==
    LET filled == IF Len(listings) < 100 THEN Len(listings) ELSE 100
    IN  /\ DOMAIN row.price = 1..100
        /\ DOMAIN row.amount = 1..100
        /\ \A i \in 1..100 :
              IF i <= filled
              THEN /\ row.price[i] = <<listings[i].price>>
                   /\ row.amount[i] = <<listings[i].amount>>
              ELSE /\ row.price[i] = <<>>
                   /\ row.amount[i] = <<>>

\* C7 (scenario): code 2 in modes 1 and 2 and a well-formed response in
\* mode 3 give the MarketRow of the mode-3 response after exactly 3 debits
\* and no sleep.
C7_Scenario ==
    (/\ FetchDone
     /\ cycle = 1
     /\ Len(attempts) = 3
     /\ HasCode(attempts[1].resp, 2)
     /\ HasCode(attempts[2].resp, 2)
     /\ WellFormed(attempts[3].resp))
        => /\ outcome.kind = "returned"
           /\ IsMarketRow(outcome.row)
           /\ RowHoldsListings(outcome.row, ListingsOf(attempts[3].resp.body))
           /\ attempts[3].mode = 3
           /\ debits = 3
           /\ sleeps = <<>>

\* C7 (step): a response with code 2 in mode k < 3 moves the fetch to mode
\* k + 1 of the same cycle, with no debit beyond the attempt's own, no sleep
\* and the same backoff.
C7_Step ==
    (/\ fpc = "request"
     /\ mode < 3
     /\ Len(attempts') = Len(attempts) + 1
     /\ HasCode(attempts'[Len(attempts')].resp, 2))
        => /\ fpc' = "try"
           /\ mode' = mode + 1
           /\ cycle' = cycle
           /\ debits' = debits
           /\ sleeps' = sleeps
           /\ backoff' = backoff

\* C7: auth-mode fallback, the step and the scenario.
C7_AuthFallback == [][C7_Step]_vars /\ []C7_Scenario

\* the scenario happened with the HTTP status 503 on the two code-2
\* responses and a listing array longer than the row
C7_Witness ==
    /\ Returned
    /\ cycle = 1
    /\ Len(attempts) = 3
    /\ HasCode(attempts[1].resp, 2) /\ attempts[1].resp.status = 503
    /\ HasCode(attempts[2].resp, 2)
    /\ attempts[3].resp.kind = "http"
    /\ attempts[3].resp.body.kind = "market"
    /\ Len(attempts[3].resp.body.listings) > 100
    /\ debits = 3
    /\ sleeps = <<>>

\* C8: when every request is answered with HTTP 503, whatever the body,
\* fetch_100 runs exactly RETRIES cycles and returns the ErrorRow
\* 'Exhausted retries'.
C8_Always503 ==
    (FetchDone /\ upstream.all503)
        => /\ outcome.kind = "returned"
           /\ outcome.row = ExhaustedRow(req_item_id, req_my_quantity)
           /\ cycle = RETRIES

\* C9: after a request that raised a transport exception the fetch is in
\* Backoff, on its way to the next cycle, or has ended with 'Exhausted
\* retries' after the last cycle; it has not ended otherwise.
C9_TransportRetried ==
    (attempts # <<>> /\ LastResp.kind = "exception")
        => \/ fpc \in {"backoff", "cycle_end"}
           \/ /\ Returned
              /\ cycle = RETRIES
              /\ outcome.row = ExhaustedRow(req_item_id, req_my_quantity)

\* C10: a returned MarketRow has exactly the slots price_1..price_100 and
\* amount_1..amount_100; with L listings in the response, slots
\* 1..min(L, 100) hold the first listings in upstream order and the slots
\* after them are null.
C10_HundredSlots ==
    (Returned /\ IsMarketRow(outcome.row))
        => RowHoldsListings(outcome.row, ListingsOf(LastResp.body))

\* a response with 99 listings in descending price order: slot 99 holds the
\* last one, slot 100 is null
C10_Witness ==
    /\ Returned
    /\ IsMarketRow(outcome.row)
    /\ LastResp.body.kind = "market"
    /\ Len(LastResp.body.listings) = 99
    /\ LastResp.body.listings[1].price > LastResp.body.listings[99].price
    /\ outcome.row.price[99] = <<LastResp.body.listings[99].price>>
    /\ outcome.row.price[100] = <<>>

\* the response is one spec.md calls transient: an error object with code 0
\* or 10, or a retryable HTTP status
IsTransient(resp) ==
    /\ resp.kind = "http"
    /\ \/ (resp.body.kind = "error" /\ resp.body.code \in {0, 10})
       \/ resp.status \in {429, 500, 502, 503, 504}

Exhausted ==
    Returned /\ outcome.row = ExhaustedRow(req_item_id, req_my_quantity)

\* C15: a response with error code 0 or 10, or with HTTP status 429, 500,
\* 502, 503 or 504, is the last attempt of its cycle and puts the fetch in
\* Backoff (from where it goes to the next cycle or, after the last cycle, to
\* 'Exhausted retries'); it never leads to a MarketRow, to a fatal ErrorRow
\* or to another auth mode.
C15_TransientBacksOff ==
    \A i \in 1..Len(attempts) :
        IsTransient(attempts[i].resp)
            => /\ i = Len(attempts)
               /\ \/ fpc \in {"backoff", "cycle_end"}
                  \/ Exhausted /\ cycle = RETRIES

\* the text of an upstream error code in the error message
CodeText == (2 :> "2") @@ (5 :> "5")

\* the answer just received is an error object that is neither transient
\* nor an invalid key with an auth mode left, on a non-retryable status
FatalAnswer ==
    /\ fpc = "request"
    /\ Len(attempts') = Len(attempts) + 1
    /\ LET resp == attempts'[Len(attempts')].resp
       IN  /\ resp.kind = "http"
           /\ resp.body.kind = "error"
           /\ resp.body.code \notin {0, 10}
           /\ resp.body.code = 2 => mode = 3
           /\ resp.status \notin {429, 500, 502, 503, 504}

C16_Step ==
    /\ FatalAnswer
          => LET resp == attempts'[Len(attempts')].resp
             IN  /\ fpc' = "done"
                 /\ outcome'.kind = "returned"
                 /\ outcome'.row =
                       [item_id |-> req_item_id,
                        my_quantity |-> req_my_quantity,
                        error |-> "API error " \o CodeText[resp.body.code]
                                  \o ": " \o resp.body.msg]
                 /\ debits' = debits
                 /\ sleeps' = sleeps
                 /\ backoff' = backoff
    /\ fpc # "done"

\* C16: an error object with a code other than 0, 10 and (in modes 1 and 2)
\* 2, on a non-retryable status, ends fetch_100 in the same step with the
\* ErrorRow 'API error <code>: <message>' of that response, with no further
\* debit or sleep; code 2 in mode 3 is such a code; once fetch_100 has
\* ended nothing more happens.
C16_FatalImmediate == [][C16_Step]_vars

\* code 2 in auth mode 3 of the second cycle ended the call
C16_Witness ==
    /\ Returned
    /\ cycle = 2
    /\ LastAttempt.mode = 3
    /\ HasCode(LastResp, 2)
    /\ LastResp.status = 200
    /\ outcome.row.error = "API error 2: Denied"
    /\ Len(sleeps) = 2

\* C17: each Backoff sleeps once: there is one sleep per cycle left behind,
\* the j-th sleep lasts 0.8 * 1.6^(j-1) seconds, the backoff has grown once
\* per sleep, and a call that ends with 'Exhausted retries' has slept
\* RETRIES times.
C17_OneSleepPerBackoff ==
    /\ Len(sleeps) <= cycle
    /\ \A j \in 1..Len(sleeps) :
          sleeps[j] = <<8 * 16^(j - 1), 10^j>>
    /\ backoff = <<8 * 16^Len(sleeps), 10^(Len(sleeps) + 1)>>
    /\ Exhausted => Len(sleeps) = RETRIES

-----------------------------------------------------------------------------
(* TokenBucket (streamlit_app.py, lines 27-44), called by several threads.   *)
(* Time is counted in ticks of 1 / TicksPerToken of the time one token takes *)
(* to refill, and tokens in units of 1 / TicksPerToken token, so that        *)
(* (now - self.last) * self.rate_per_sec is the number of ticks elapsed.     *)

\* self.capacity in the units of tokens
Full == capacity * TicksPerToken

\* the argument of thread t's take call in the units of tokens
Need(t) == want[t] * TicksPerToken

\* lines 28-33: the bucket after construction, at time 0, no thread in take
BucketInit ==
    /\ ParserIdle
    /\ FetchIdle
    /\ PoolIdle
    /\ tokens = Full
    /\ last = 0
    /\ lock = <<>>
    /\ clock = 0
    /\ tpc = [t \in Threads |-> "idle"]
    /\ want = [t \in Threads |-> 1]
    /\ started = 0
    /\ completed = 0
    /\ debited = 0
    /\ refilled = 0

\* time passes, up to the horizon of the observation
Tick ==
    /\ clock < MaxTime
    /\ clock' = clock + 1
    /\ UNCHANGED <<pvars, fvars, workers, tokens, last, lock, tpc, want,
                   started, completed, debited, refilled>>

\* time passes, without horizon: the bucket reads the clock only as
\* now - self.last, and an elapsed time of Full ticks or more refills it
\* completely, so a clock at MaxTime goes on by moving self.last back, and
\* stands still once Full ticks have elapsed
TickOn ==
    /\ IF clock < MaxTime
       THEN clock' = clock + 1 /\ last' = last
       ELSE /\ clock' = clock
            /\ last' = IF clock - last < Full THEN last - 1 ELSE last
    /\ UNCHANGED <<pvars, fvars, workers, tokens, lock, tpc, want, started,
                   completed, debited, refilled>>

\* a thread calls bucket.take(n)
CallTake(t, n) ==
    /\ tpc[t] = "idle"
    /\ started < MaxCalls
    /\ started' = started + 1
    /\ want' = [want EXCEPT ![t] = n]
    /\ tpc' = [tpc EXCEPT ![t] = "acquire"]
    /\ UNCHANGED <<pvars, fvars, workers, tokens, last, lock, clock,
                   completed, debited, refilled>>

\* a `with` statement that enters without acquiring the lock
Acquire_NoLock(t) ==
    /\ tpc[t] = "acquire"
    /\ lock' = <<t>>
    /\ tpc' = [tpc EXCEPT ![t] = "refill"]
    /\ UNCHANGED <<pvars, fvars, workers, tokens, last, clock, want, started,
                   completed, debited, refilled>>

\* line 37: with self.lock, entered when the lock is free
Acquire(t) ==
    /\ tpc[t] = "acquire"
    /\ lock = <<>>
    /\ lock' = <<t>>
    /\ tpc' = [tpc EXCEPT ![t] = "refill"]
    /\ UNCHANGED <<pvars, fvars, workers, tokens, last, clock, want, started,
                   completed, debited, refilled>>

\* a refill that does not record the time it has accounted for
Refill_KeepsLast(t) ==
    /\ tpc[t] = "refill"
    /\ tokens' = Min(Full, tokens + (clock - last))
    /\ refilled' = refilled + (tokens' - tokens)
    /\ tpc' = [tpc EXCEPT ![t] = "check"]
    /\ UNCHANGED <<pvars, fvars, workers, last, lock, clock, want, started,
                   completed, debited>>

\* lines 38-40: the lazy refill
Refill(t) ==
    /\ tpc[t] = "refill"
    /\ tokens' = Min(Full, tokens + (clock - last))
    /\ last' = clock
    /\ refilled' = refilled + (tokens' - tokens)
    /\ tpc' = [tpc EXCEPT ![t] = "check"]
    /\ UNCHANGED <<pvars, fvars, workers, lock, clock, want, started,
                   completed, debited>>

\* a take that keeps the lock while it sleeps
Check_KeepsLock(t) ==
    /\ tpc[t] = "check"
    /\ IF tokens >= Need(t)
       THEN tpc' = [tpc EXCEPT ![t] = "debit"]
       ELSE tpc' = [tpc EXCEPT ![t] = "sleep"]
    /\ UNCHANGED <<pvars, fvars, workers, tokens, last, lock, clock, want,
                   started, completed, debited, refilled>>

\* line 41: the test; when it fails the with block ends and the lock is
\* released
Check(t) ==
    /\ tpc[t] = "check"
    /\ IF tokens >= Need(t)
       THEN /\ tpc' = [tpc EXCEPT ![t] = "debit"]
            /\ lock' = lock
       ELSE /\ tpc' = [tpc EXCEPT ![t] = "sleep"]
            /\ lock' = <<>>
    /\ UNCHANGED <<pvars, fvars, workers, tokens, last, clock, want, started,
                   completed, debited, refilled>>

\* lines 42-43: the debit and the return, which releases the lock
Debit(t) ==
    /\ tpc[t] = "debit"
    /\ tokens' = tokens - Need(t)
    /\ debited' = debited + Need(t)
    /\ completed' = completed + (IF want[t] = 1 THEN 1 ELSE 0)
    /\ lock' = <<>>
    /\ tpc' = [tpc EXCEPT ![t] = "idle"]
    /\ UNCHANGED <<pvars, fvars, workers, last, clock, want, started,
                   refilled>>

\* line 44: time.sleep(0.01), then the next iteration of the loop
Sleep(t) ==
    /\ tpc[t] = "sleep"
    /\ tpc' = [tpc EXCEPT ![t] = "acquire"]
    /\ UNCHANGED <<pvars, fvars, workers, tokens, last, lock, clock, want,
                   started, completed, debited, refilled>>

\* the steps of a thread inside take
InTake(t) ==
    \/ Acquire(t)
    \/ Refill(t)
    \/ Check(t)
    \/ Debit(t)
    \/ Sleep(t)

BucketNext ==
    \/ Tick
    \/ \E t \in Threads : \E n \in TakeSizes : CallTake(t, n)
    \/ \E t \in Threads : Acquire(t)
    \/ \E t \in Threads : Refill(t)
    \/ \E t \in Threads : Check(t)
    \/ \E t \in Threads : Debit(t)
    \/ \E t \in Threads : Sleep(t)

BucketSpec == BucketInit /\ [][BucketNext]_vars

FairBucketNext ==
    \/ TickOn
    \/ \E t \in Threads : \E n \in TakeSizes : CallTake(t, n)
    \/ \E t \in Threads : Acquire(t)
    \/ \E t \in Threads : Refill(t)
    \/ \E t \in Threads : Check(t)
    \/ \E t \in Threads : Debit(t)
    \/ \E t \in Threads : Sleep(t)

\* time advances, and a thread that can take its next step in take is
\* scheduled; the lock is not fair: a thread waiting for it can take its
\* step only while the lock is free
FairBucketSpec ==
    /\ BucketInit
    /\ [][FairBucketNext]_vars
    /\ WF_vars(TickOn)
    /\ \A t \in Threads : WF_vars(InTake(t))

-----------------------------------------------------------------------------
(* Claims about TokenBucket *)

\* the threads between lines 38 and 43, inside the with block
InCritical == {t \in Threads : tpc[t] \in {"refill", "check", "debit"}}

\* C11: with any number of threads in take, in every reachable state
\* 0 <= self.tokens <= self.capacity; at most one thread is between the
\* refill and the debit, and it holds the lock; the tokens are the initial
\* capacity plus what was refilled minus what was debited, so no token is
\* debited twice and the debits never exceed capacity plus refills; a
\* thread about to debit finds its tokens there.
C11_TokensInRange ==
    /\ 0 <= tokens /\ tokens <= Full
    /\ Cardinality(InCritical) <= 1
    /\ \A t \in InCritical : lock = <<t>>
    /\ lock = <<>> => InCritical = {}
    /\ tokens = Full + refilled - debited
    /\ debited <= Full + refilled
    /\ \A t \in Threads : tpc[t] = "debit" => tokens >= Need(t)

\* a thread waits for the lock while the other one, inside the with block,
\* is about to debit the last tokens of a bucket that was refilled before
C11_Witness ==
    /\ tpc["t1"] = "debit"
    /\ tpc["t2"] = "acquire"
    /\ lock = <<"t1">>
    /\ tokens = Need("t1")
    /\ refilled > 0
    /\ debited >= Full

\* C12: at every time t the number of completed take(1) calls is at most
\* capacity + rate * t (in ticks: completed * TicksPerToken <= Full +
\* clock), and so is the total debited by calls of any size; what was
\* refilled is at most rate * t.
C12_RateBound ==
    /\ completed * TicksPerToken <= Full + clock
    /\ debited <= Full + clock
    /\ refilled <= clock
    /\ last <= clock

\* the bound is met: more take(1) calls than the capacity have completed,
\* the last of them at the earliest time the bound allows
C12_Witness ==
    /\ completed > capacity
    /\ completed * TicksPerToken = Full + clock
    /\ clock > 0

\* thread t is inside take
Waiting(t) == tpc[t] # "idle"

\* thread t is inside take and no other thread is or will be
OnlyWaiter(t) ==
    /\ Waiting(t)
    /\ want[t] <= capacity
    /\ started = MaxCalls
    /\ \A u \in Threads \ {t} : ~Waiting(u)

\* some thread has passed the test of line 41: it is debiting and returns
SomeServed == \E t \in Threads : tpc[t] = "debit"

\* C13: with a positive refill rate and time advancing, a take(n) call with
\* n <= capacity that is the only one waiting returns, and whenever some
\* thread waits in take, some waiting thread is served.
C13_EventualService ==
    /\ \A t \in Threads : OnlyWaiter(t) ~> ~Waiting(t)
    /\ (\E t \in Threads : Waiting(t)) ~> SomeServed

\* a take(capacity) call found the bucket short of tokens, slept, and is
\* now the only call waiting; it has not been served yet, while all the
\* other calls, take(1) calls of the other thread, have been
C13_Witness ==
    /\ OnlyWaiter("t1")
    /\ want["t1"] = capacity
    /\ tpc["t1"] = "sleep"
    /\ tokens < Full
    /\ completed = MaxCalls - 1
    /\ debited = completed * TicksPerToken

-----------------------------------------------------------------------------
(* fetch_100 calls running in parallel, one per thread and item, on one      *)
(* TokenBucket (the parallel execution of spec.md, section 5)                *)

\* the upstream's answers to the requests for one item, in order; the last
\* one is repeated for all further requests
ErrorResp(st, c) ==
    [kind |-> "http", status |-> st,
     body |-> [kind |-> "error", code |-> c, msg |-> "Denied"]]
MarketResp(iid, len) ==
    [kind |-> "http", status |-> 200,
     body |-> [kind |-> "market",
               item |-> [id |-> iid, name |-> "Xanax", type |-> "Drug",
                         average_price |-> 800],
               listings |-> ListingArray(len, 1)]]
Scripts(iid) ==
    {<<MarketResp(iid, 1)>>,
     <<ErrorResp(200, 2), ErrorResp(200, 2), MarketResp(iid, 2)>>,
     <<ErrorResp(200, 0), ErrorResp(200, 5)>>,
     <<ErrorResp(200, 2), ErrorResp(503, 5)>>,
     <<ErrorResp(200, 10), [kind |-> "exception", exc |-> "ConnectionError"]>>}

ScriptAt(script, i) == script[Min(i, Len(script))]

\* the item and quantity each thread fetches
ItemOfThread == ("t1" :> [item_id |-> 99, my_quantity |-> 1])
                @@ ("t2" :> [item_id |-> 206, my_quantity |-> 2])

\* line 93 and the first iteration of both loops, in every thread; the
\* bucket is new
PoolInit ==
    /\ ParserIdle
    /\ FetchIdle
    /\ tokens = Full
    /\ last = 0
    /\ lock = <<>>
    /\ clock = 0
    /\ tpc = [t \in Threads |-> "idle"]
    /\ want = [t \in Threads |-> 1]
    /\ started = 0
    /\ completed = 0
    /\ debited = 0
    /\ refilled = 0
    /\ \E sc \in [Threads -> UNION {Scripts(i) : i \in ItemIds}] :
          /\ \A t \in Threads : sc[t] \in Scripts(ItemOfThread[t].item_id)
          /\ workers =
                [t \in Threads |->
                    [pc |-> "try",
                     item_id |-> ItemOfThread[t].item_id,
                     my_quantity |-> ItemOfThread[t].my_quantity,
                     script |-> sc[t],
                     sent |-> 0,
                     cycle |-> 1,
                     mode |-> 1,
                     backoff |-> <<8, 10>>,
                     sleeps |-> <<>>,
                     outcome |-> [kind |-> "none"]]]

\* an auth mode kept in one place for all the calls
ModeOf_Shared(w) ==
    LET u == CHOOSE x \in Threads :
                 \A y \in Threads : workers[x].mode >= workers[y].mode
    IN  workers[u].mode

\* the loop variable `mode` of the call of thread w
ModeOf(w) == workers[w].mode

\* line 81 of attempt_call: the thread calls bucket.take(1)
WorkerTake(w) ==
    /\ workers[w].pc = "try"
    /\ tpc[w] = "idle"
    /\ started' = started + 1
    /\ want' = [want EXCEPT ![w] = 1]
    /\ tpc' = [tpc EXCEPT ![w] = "acquire"]
    /\ workers' = [workers EXCEPT ![w].pc = "taking"]
    /\ UNCHANGED <<pvars, fvars, tokens, last, lock, clock, completed,
                   debited, refilled>>

\* the locals of the call after lines 82-142 on the response resp
Answered(rec, resp, m) ==
    LET r == TryAttempt(resp)
        what == IF r.escaped THEN "raise" ELSE Classify(r.status, r.data, m)
        sent == [rec EXCEPT !.sent = rec.sent + 1]
    IN  CASE what = "raise" ->
                [sent EXCEPT !.pc = "done", !.outcome = [kind |-> "raised"]]
          [] what = "continue" ->
                [sent EXCEPT !.pc = "try", !.mode = rec.mode + 1]
          [] what = "backoff" ->
                [sent EXCEPT !.pc = "backoff"]
          [] what = "return_error" ->
                [sent EXCEPT
                    !.pc = "done",
                    !.outcome =
                        [kind |-> "returned",
                         row |-> ErrorRow(rec.item_id, rec.my_quantity,
                                          r.data.code, r.data.msg)]]
          [] what = "proceed" ->
                [sent EXCEPT
                    !.pc = "done",
                    !.outcome =
                        IF r.data.kind = "array"
                        THEN [kind |-> "raised"]
                        ELSE [kind |-> "returned",
                              row |-> BuildRow(r.data, rec.item_id,
                                               rec.my_quantity)]]

\* lines 82-142: take has returned, the request is made and answered by the
\* next response of the item's sequence
WorkerAnswer(w) ==
    /\ workers[w].pc = "taking"
    /\ tpc[w] = "idle"
    /\ workers' =
          [workers EXCEPT
              ![w] = Answered(workers[w],
                              ScriptAt(workers[w].script, workers[w].sent + 1),
                              ModeOf(w))]
    /\ UNCHANGED <<pvars, fvars, bvars>>

\* lines 110-112
WorkerBackoffSleep(w) ==
    /\ workers[w].pc = "backoff"
    /\ workers' =
          [workers EXCEPT
              ![w].sleeps = Append(workers[w].sleeps, workers[w].backoff),
              ![w].backoff = Grow(workers[w].backoff),
              ![w].pc = "cycle_end"]
    /\ UNCHANGED <<pvars, fvars, bvars>>

\* lines 144-145, then the next cycle or line 147
WorkerCycleEnd(w) ==
    /\ workers[w].pc = "cycle_end"
    /\ LET slept == [workers[w] EXCEPT
                        !.sleeps = Append(workers[w].sleeps, workers[w].backoff),
                        !.backoff = Grow(workers[w].backoff)]
       IN  workers' =
              [workers EXCEPT
                  ![w] = IF slept.cycle < RETRIES
                         THEN [slept EXCEPT !.cycle = slept.cycle + 1,
                                            !.mode = 1,
                                            !.pc = "try"]
                         ELSE [slept EXCEPT
                                  !.pc = "done",
                                  !.outcome =
                                      [kind |-> "returned",
                                       row |-> ExhaustedRow(slept.item_id,
                                                            slept.my_quantity)]]]
    /\ UNCHANGED <<pvars, fvars, bvars>>

PoolNext ==
    \/ TickOn
    \/ \E w \in Threads : WorkerTake(w)
    \/ \E t \in Threads : Acquire(t)
    \/ \E t \in Threads : Refill(t)
    \/ \E t \in Threads : Check(t)
    \/ \E t \in Threads : Debit(t)
    \/ \E t \in Threads : Sleep(t)
    \/ \E w \in Threads : WorkerAnswer(w)
    \/ \E w \in Threads : WorkerBackoffSleep(w)
    \/ \E w \in Threads : WorkerCycleEnd(w)

PoolSpec == PoolInit /\ [][PoolNext]_vars

-----------------------------------------------------------------------------
(* Claims about parallel fetches *)

\* the outcome of fetch_100 run alone on the responses of script from the
\* i-th on, in cycle c and auth mode md
RECURSIVE Alone(_, _, _, _, _, _)
Alone(script, iid, qty, i, c, md) ==
    LET r == TryAttempt(ScriptAt(script, i))
    IN  IF r.escaped THEN [kind |-> "raised"]
        ELSE IF r.data.kind = "error"
        THEN IF r.data.code = 2 /\ md < 3
             THEN Alone(script, iid, qty, i + 1, c, md + 1)
             ELSE IF r.data.code \in {0, 10}
                     \/ (r.status # <<>> /\ r.status[1] \in RetryableStatuses)
                  THEN IF c < RETRIES
                       THEN Alone(script, iid, qty, i + 1, c + 1, 1)
                       ELSE [kind |-> "returned",
                             row |-> ExhaustedRow(iid, qty)]
                  ELSE [kind |-> "returned",
                        row |-> ErrorRow(iid, qty, r.data.code, r.data.msg)]
        ELSE IF r.data.kind = "array" THEN [kind |-> "raised"]
        ELSE [kind |-> "returned", row |-> BuildRow(r.data, iid, qty)]

\* C14: whatever the interleaving of the threads and the waits imposed by
\* the shared bucket, a call that has ended has the outcome fetch_100 gives
\* when run alone on the same sequence of responses for its item, and the
\* outcome bears the item_id and my_quantity of its own item; a call that
\* has not ended has no outcome.
C14_ParallelSameOutcome ==
    \A w \in Threads :
        LET rec == workers[w]
        IN  IF rec.pc = "done"
            THEN /\ rec.outcome =
                       Alone(rec.script, rec.item_id, rec.my_quantity, 1, 1, 1)
                 /\ rec.outcome.kind = "returned"
                 /\ rec.outcome.row.item_id = ItemOfThread[w].item_id
                 /\ rec.outcome.row.my_quantity = ItemOfThread[w].my_quantity
            ELSE rec.outcome.kind = "none"

\* both calls have ended, one with 'Exhausted retries' after 4 requests
\* in 3 cycles, one with a MarketRow after an auth fallback; together they
\* took more tokens than the shared bucket holds, so they waited for
\* refills
C14_Witness ==
    /\ workers["t1"].pc = "done"
    /\ workers["t2"].pc = "done"
    /\ workers["t1"].outcome.row =
          ExhaustedRow(ItemOfThread["t1"].item_id, 1)
    /\ workers["t1"].sent = 4
    /\ "item_name" \in DOMAIN workers["t2"].outcome.row
    /\ workers["t2"].sent = 3
    /\ debited = 7 * TicksPerToken
    /\ debited > Full
    /\ refilled > 0

====
